---- MODULE Spec2Model ----
(***************************************************************************)
(* Streaming translation scheduler and session lifecycle of                *)
(* useRealtimeSession (src/src/app/hooks/useMemory.ts, lines 233-495) and  *)
(* the App handlers that send response.create (src/src/app/App.tsx).       *)
(*                                                                         *)
(* A JavaScript string is a sequence of one-character strings; " " is the  *)
(* whitespace character.  Date.now() is the variable now.                  *)
(***************************************************************************)
EXTENDS Integers, Sequences, FiniteSets, TLC

\* ------------------------------------------------------------------ bounds
MaxDeltas == 3        \* transcription deltas delivered
MaxTicks == 2         \* clock advances
MaxConnects == 1      \* sessions constructed
MaxOutstanding == 2   \* responses the backend holds at once
MaxSessions == 2      \* sessions constructed when connect() is called again
EpochStart == 5000    \* Date.now() when the page loads (any value > 1000)

\* ------------------------------------------------------- program constants
FlushIntervalMs == 1000
MinWords == 3

Conns == {1, 2}               \* concurrent invocations of connect()
TickSteps == {500, 501}       \* clock advances, in ms
Deltas == { <<>>, <<" ">>, <<" ", "b">>, <<"c", " ", "d", " ", "e">> }
LifeDeltas == { <<" ", "b">>, <<"c", " ", "d", " ", "e">> }

\* ----------------------------------------------------------------- strings
IsSpace(c) == c = " "

RECURSIVE TrimStart(_)
TrimStart(s) ==
  IF s = <<>> THEN <<>>
  ELSE IF IsSpace(Head(s)) THEN TrimStart(Tail(s)) ELSE s

RECURSIVE TrimEnd(_)
TrimEnd(s) ==
  IF s = <<>> THEN <<>>
  ELSE IF IsSpace(s[Len(s)]) THEN TrimEnd(SubSeq(s, 1, Len(s) - 1)) ELSE s

\* String.prototype.trim
Trim(s) == TrimEnd(TrimStart(s))

\* s.split(/\s+/): the pieces between maximal runs of whitespace; the empty
\* string splits into one empty piece.
RECURSIVE SplitFrom(_, _)
SplitFrom(s, cur) ==
  IF s = <<>> THEN <<cur>>
  ELSE IF IsSpace(Head(s)) THEN <<cur>> \o SplitFrom(TrimStart(s), <<>>)
  ELSE SplitFrom(Tail(s), Append(cur, Head(s)))

SplitWs(s) == SplitFrom(s, <<>>)

\* accumulatedTranscriptionRef.current.trim().split(/\s+/)
Words(buf) == SplitWs(Trim(buf))

\* a string used as a condition
Truthy(s) == s # <<>>

\* ------------------------------------------------------------------- state
VARIABLES
  sessionRef,                     \* 0 is null, otherwise the session's id
  status,                         \* the status given to onConnectionChange
  accumulatedTranscriptionRef,
  lastTranslationTimeRef,
  isResponseInProgressRef,
  pendingTranslationRef,
  isPTTActiveRef,
  isPTTUserSpeaking,              \* App.tsx
  pc, sess,                       \* each connect() invocation: its await point, its session
  created,                        \* sessions constructed so far
  open,                           \* sessions whose handshake completed and that are not closed
  closed,                         \* sessions on which close() was called
  muted,                          \* the session's microphone is muted (mute(true))
  outstanding,                    \* backend: origins of the responses not yet done, oldest first
  now,                            \* Date.now()
  ticks, deltas,                  \* counters bounding the exploration
  requests,                       \* history: texts of the translation requests of this connection
  appended,                       \* history: concatenation of the deltas delivered in this connection
  sawCompleted,                   \* history: a transcription-completed event was handled in this connection
  issued,                         \* history: translation requests issued since the last response.done
  queued,                         \* history: the texts flushed into the pending text, oldest first
  last,                           \* history: the last handler that ran and what it decided
  clearedOn,                      \* history: the session that got the input_audio_buffer.clear
                                  \* of a press, until a release commits
  \* the memory system (api/memory route, lib/memory/config, MemoryService)
  storeKind,                      \* which config.ts is built: "chroma" or "simple"; "" until first used
  vectorStore,                    \* config.ts: the store instance, 0 is null
  storeCount,                     \* store instances constructed so far
  storeDocs,                      \* the documents each backing store holds (0: the Chroma collection)
  index, queryEngine,             \* MemoryService: the store instance each is built on, 0 is null
  memoryServiceInitialized,       \* route.ts
  reqPc, reqKind, reqArg,         \* each request in progress: its await point, its kind, its parameters
  started, stored,                \* requests started and documents stored so far
  beforeReset,                    \* history: the documents stored before a reset that returned 'reset'
  memLast                         \* history: the last response of the route

vars == << sessionRef, status, accumulatedTranscriptionRef, lastTranslationTimeRef,
           isResponseInProgressRef, pendingTranslationRef, isPTTActiveRef,
           isPTTUserSpeaking, pc, sess, created, open, closed, muted, outstanding,
           now, ticks, deltas, requests, appended, sawCompleted, issued, queued, last,
           clearedOn, storeKind, vectorStore, storeCount, storeDocs, index, queryEngine,
           memoryServiceInitialized, reqPc, reqKind, reqArg, started, stored,
           beforeReset, memLast >>

memoryState == << storeKind, vectorStore, storeCount, storeDocs, index, queryEngine,
                  memoryServiceInitialized, reqPc, reqKind, reqArg, started,
                  stored, beforeReset, memLast >>

\* the realtime session hook and the App
sessionState == << sessionRef, status, accumulatedTranscriptionRef, lastTranslationTimeRef,
                  isResponseInProgressRef, pendingTranslationRef, isPTTActiveRef,
                  isPTTUserSpeaking, pc, sess, created, open, closed, muted, outstanding,
                  now, ticks, deltas, requests, appended, sawCompleted, issued, queued, last,
                  clearedOn >>

refs == << accumulatedTranscriptionRef, lastTranslationTimeRef,
           isResponseInProgressRef, pendingTranslationRef >>

hist == << requests, appended, sawCompleted, issued, queued >>

lifecycle == << sessionRef, status, pc, sess, created, open, closed, muted >>

\* what a scheduler handler found when it started
Seen(op, arg, flushed) ==
  [op |-> op, arg |-> arg, at |-> now, flushed |-> flushed,
   bufferBefore |-> accumulatedTranscriptionRef,
   lastBefore |-> lastTranslationTimeRef,
   inFlightBefore |-> isResponseInProgressRef,
   pendingBefore |-> pendingTranslationRef,
   requestsBefore |-> Len(requests),
   sessionBefore |-> sessionRef, statusBefore |-> status,
   threw |-> FALSE, notified |-> FALSE, again |-> FALSE, sent |-> FALSE,
   tag |-> "", ran |-> <<>>, pressed |-> FALSE, clearedBefore |-> 0]

\* what a lifecycle or send operation found when it was called, whether it
\* threw to its caller, whether it called updateStatus, and whether the same
\* operation was the step before
Called(op, threw, notified) ==
  [op |-> op, arg |-> <<>>, at |-> 0, flushed |-> FALSE,
   bufferBefore |-> accumulatedTranscriptionRef,
   lastBefore |-> lastTranslationTimeRef,
   inFlightBefore |-> isResponseInProgressRef,
   pendingBefore |-> pendingTranslationRef,
   requestsBefore |-> Len(requests),
   sessionBefore |-> sessionRef, statusBefore |-> status,
   threw |-> threw, notified |-> notified, again |-> last.op = op, sent |-> FALSE,
   tag |-> "", ran |-> <<>>, pressed |-> FALSE, clearedBefore |-> 0]

\* any other step
Did(op) ==
  [op |-> op, arg |-> <<>>, at |-> 0, flushed |-> FALSE, bufferBefore |-> <<>>, lastBefore |-> 0,
   inFlightBefore |-> FALSE, pendingBefore |-> <<>>, requestsBefore |-> 0,
   sessionBefore |-> 0, statusBefore |-> "", threw |-> FALSE, notified |-> FALSE,
   again |-> FALSE, sent |-> FALSE, tag |-> "", ran |-> <<>>, pressed |-> FALSE,
   clearedBefore |-> 0]

\* ------------------------------------------------------------- memory system: data
MaxMemRequests == 4      \* requests of one run
MaxDocs == 2             \* documents stored in one run
SimilarityTopK == 10     \* MemoryService.initialize: asQueryEngine({ similarityTopK: 10 })
DefaultToolLimit == 5    \* searchMemoryTool: limit = 5
DefaultApiLimit == 10    \* GET: parseInt(searchParams.get('limit') || '10')

Reqs == {1, 2}                                 \* requests the server handles at a time
StoreIds == 0..MaxMemRequests                  \* 0: the Chroma collection; n: the n-th instance
DocTypes == {"fact", "conversation"}
Limits == {1, DefaultToolLimit, DefaultApiLimit}
TypeFilters == {{}, {"fact"}}                  \* {}: no types filter
StoreKinds == {"chroma", "simple"}             \* the two versions of lib/memory/config.ts
GuardedKinds == {"search", "conversation", "store"}   \* the GET and POST requests

NoArg == [limit |-> 0, types |-> {}, type |-> ""]

\* MemoryQuery['filters']: "" and 0 stand for a field left undefined; an array or
\* object field (type, timeRange, importance, tags) can be given and empty
NoFilters ==
  [given |-> FALSE, conversationId |-> "", userId |-> "", agentName |-> "",
   typeGiven |-> FALSE, type |-> {},
   rangeGiven |-> FALSE, start |-> 0, end |-> 0,
   importanceGiven |-> FALSE, min |-> 0, max |-> 0,
   tagsGiven |-> FALSE, tags |-> {}]

AnyFilters == [NoFilters EXCEPT !.given = TRUE]

\* MemoryDocument.metadata: importance 0 and hasTags FALSE stand for undefined
Doc(id, conv, user, agent, type, ts, imp, hasTags, tags) ==
  [id |-> id, conversationId |-> conv, userId |-> user, agentName |-> agent,
   type |-> type, timestamp |-> ts, importance |-> imp, hasTags |-> hasTags,
   tags |-> tags]

\* the documents and the filters the filter is tried on
MaxResults == 2          \* results handed to applyFilters

SampleDocs ==
  { Doc(1, "c1", "u1", "a1", "fact", 10, 4, TRUE, {"x"}),
    Doc(2, "c2", "u2", "a2", "conversation", 20, 2, TRUE, {"y"}),
    Doc(3, "c1", "u1", "a1", "fact", 30, 0, FALSE, {}),
    Doc(4, "", "", "", "preference", 20, 5, TRUE, {}),
    Doc(5, "c1", "u2", "a1", "context", 10, 1, TRUE, {"x", "y"}) }

SampleFilters ==
  { NoFilters, AnyFilters,
    [AnyFilters EXCEPT !.conversationId = "c1"],
    [AnyFilters EXCEPT !.userId = "u1"],
    [AnyFilters EXCEPT !.agentName = "a2"],
    [AnyFilters EXCEPT !.typeGiven = TRUE, !.type = {"fact", "context"}],
    [AnyFilters EXCEPT !.typeGiven = TRUE],
    [AnyFilters EXCEPT !.rangeGiven = TRUE, !.start = 10, !.end = 20],
    [AnyFilters EXCEPT !.importanceGiven = TRUE, !.min = 3],
    [AnyFilters EXCEPT !.importanceGiven = TRUE, !.max = 2],
    [AnyFilters EXCEPT !.importanceGiven = TRUE, !.min = 2, !.max = 4],
    [AnyFilters EXCEPT !.tagsGiven = TRUE, !.tags = {"x"}],
    [AnyFilters EXCEPT !.tagsGiven = TRUE],
    [AnyFilters EXCEPT !.conversationId = "c1", !.typeGiven = TRUE, !.type = {"fact"},
                       !.tagsGiven = TRUE, !.tags = {"x"}] }

SampleResults ==
  UNION { [1..n -> SampleDocs] : n \in 0..MaxResults }

\* what the route answered last, and what it had seen when it did
Answered(op, r, kind, st) ==
  [op |-> op, req |-> r, kind |-> kind, status |-> st, results |-> {}, limit |-> 0,
   flagBefore |-> memoryServiceInitialized, indexBefore |-> index,
   engineBefore |-> queryEngine, storeBefore |-> vectorStore, failed |-> FALSE,
   input |-> <<>>, filters |-> NoFilters, output |-> <<>>]

\* the same, remembering whether an initialization has failed in this run
Answer(op, r, kind, st) == [Answered(op, r, kind, st) EXCEPT !.failed = memLast.failed]

Init ==
  /\ sessionRef = 0
  /\ status = "DISCONNECTED"
  /\ accumulatedTranscriptionRef = <<>>
  /\ lastTranslationTimeRef = 0
  /\ isResponseInProgressRef = FALSE
  /\ pendingTranslationRef = <<>>
  /\ isPTTActiveRef = FALSE
  /\ isPTTUserSpeaking = FALSE
  /\ pc = [c \in Conns |-> "idle"]
  /\ sess = [c \in Conns |-> 0]
  /\ created = 0
  /\ open = {}
  /\ closed = {}
  /\ muted = FALSE
  /\ outstanding = <<>>
  /\ now = EpochStart
  /\ ticks = 0
  /\ deltas = 0
  /\ requests = <<>>
  /\ appended = <<>>
  /\ sawCompleted = FALSE
  /\ issued = 0
  /\ queued = <<>>
  /\ last = Did("none")
  /\ clearedOn = 0
  /\ storeKind = ""
  /\ vectorStore = 0
  /\ storeCount = 0
  /\ storeDocs = [i \in StoreIds |-> {}]
  /\ index = 0
  /\ queryEngine = 0
  /\ memoryServiceInitialized = FALSE
  /\ reqPc = [r \in Reqs |-> "idle"]
  /\ reqKind = [r \in Reqs |-> ""]
  /\ reqArg = [r \in Reqs |-> NoArg]
  /\ started = 0
  /\ stored = 0
  /\ beforeReset = {}
  /\ memLast = Answered("none", 0, "", 0)

\* ------------------------------------------------------------- flush policy
ShouldTranslateAtLeast(buf, t, lastT) ==
  \/ Len(Words(buf)) >= MinWords
  \/ (t - lastT >= FlushIntervalMs /\ Len(Words(buf)) >= 1)

ShouldTranslateTimeOnly(buf, t, lastT) ==
  t - lastT > FlushIntervalMs /\ Len(Words(buf)) >= 1

\* shouldTranslate
ShouldTranslate(buf, t, lastT) ==
  \/ Len(Words(buf)) >= MinWords
  \/ (t - lastT > FlushIntervalMs /\ Len(Words(buf)) >= 1)

FlushGuardAlways(buf) == TRUE

\* the second conjunct of the flush condition: accumulatedTranscriptionRef.current.trim()
FlushGuard(buf) == Truthy(Trim(buf))

AppendDeltaReplace(buf, d) == d

\* accumulatedTranscriptionRef.current += event.delta
AppendDelta(buf, d) == buf \o d

BufferAfterFlushKept(buf) == buf

\* accumulatedTranscriptionRef.current = '' after a flush
BufferAfterFlush(buf) == <<>>

InFlightNever == FALSE

\* if (isResponseInProgressRef.current)
InFlight == isResponseInProgressRef

JoinPendingReplace(p, t) == t

JoinPendingPrepend(p, t) == IF Truthy(p) THEN t \o <<" ">> \o p ELSE t

\* pendingTranslationRef.current ? `${pending} ${newText}` : newText
JoinPending(p, t) == IF Truthy(p) THEN p \o <<" ">> \o t ELSE t

PendingAfterDrainKept == pendingTranslationRef

\* pendingTranslationRef.current = '' once the pending text was handed over
PendingAfterDrain == <<>>

DrainsPendingNever == FALSE

\* response.done: if (pendingTranslationRef.current)
DrainsPending == Truthy(pendingTranslationRef)

\* sendTranslationRequest sends unless there is no session or the text is blank
SendsRequest(text) == sessionRef # 0 /\ Truthy(Trim(text))

\* the text the request carries
RequestText(text) == Trim(text)

RemoveAt(q, i) == SubSeq(q, 1, i - 1) \o SubSeq(q, i + 1, Len(q))

\* ------------------------------------------------------------ the scheduler
\* handleTransportEvent, case conversation.item.input_audio_transcription.delta:
\* whether this delta makes the handler flush
FlushesOn(d) ==
  LET buf == AppendDelta(accumulatedTranscriptionRef, d)
  IN  /\ sessionRef # 0
      /\ Truthy(d)
      /\ ShouldTranslate(buf, now, lastTranslationTimeRef)
      /\ FlushGuard(buf)

HandleDelta(d) ==
  LET buf == AppendDelta(accumulatedTranscriptionRef, d)
      newText == Trim(buf)
  IN  IF FlushesOn(d)
      THEN /\ IF InFlight
              THEN /\ pendingTranslationRef' = JoinPending(pendingTranslationRef, newText)
                   /\ queued' = IF Truthy(pendingTranslationRef)
                                 THEN Append(queued, newText) ELSE <<newText>>
                   /\ UNCHANGED << isResponseInProgressRef, requests, outstanding, issued >>
              ELSE /\ IF SendsRequest(newText)
                      THEN /\ isResponseInProgressRef' = TRUE
                           /\ requests' = Append(requests, RequestText(newText))
                           /\ outstanding' = Append(outstanding, "translation")
                           /\ issued' = issued + 1
                      ELSE UNCHANGED << isResponseInProgressRef, requests, outstanding, issued >>
                   /\ UNCHANGED << pendingTranslationRef, queued >>
           /\ accumulatedTranscriptionRef' = BufferAfterFlush(buf)
           /\ lastTranslationTimeRef' = now
      ELSE /\ accumulatedTranscriptionRef' =
                IF sessionRef # 0 /\ Truthy(d) THEN buf ELSE accumulatedTranscriptionRef
           /\ UNCHANGED << lastTranslationTimeRef, isResponseInProgressRef,
                           pendingTranslationRef, requests, outstanding, issued, queued >>

TranscriptionDelta(d) ==
  /\ sessionRef \in open
  /\ deltas < MaxDeltas
  /\ (FlushesOn(d) /\ ~InFlight) => Len(outstanding) < MaxOutstanding
  /\ HandleDelta(d)
  /\ deltas' = deltas + 1
  /\ appended' = appended \o d
  /\ last' = Seen("delta", d, FlushesOn(d))
  /\ UNCHANGED << memoryState, clearedOn, lifecycle, isPTTActiveRef, isPTTUserSpeaking, now, ticks, sawCompleted >>

TranscriptionCompletedResetsTime ==
  /\ sessionRef \in open
  /\ accumulatedTranscriptionRef' = <<>>
  /\ lastTranslationTimeRef' = now
  /\ sawCompleted' = TRUE
  /\ last' = Seen("completed", <<>>, FALSE)
  /\ UNCHANGED << memoryState, clearedOn, lifecycle, isResponseInProgressRef,
                  pendingTranslationRef, isPTTActiveRef, isPTTUserSpeaking,
                  outstanding, now, ticks, deltas, requests, appended, issued, queued >>

\* handleTransportEvent, case conversation.item.input_audio_transcription.completed
TranscriptionCompleted ==
  /\ sessionRef \in open
  /\ accumulatedTranscriptionRef' = <<>>
  /\ sawCompleted' = TRUE
  /\ last' = Seen("completed", <<>>, FALSE)
  /\ UNCHANGED << memoryState, clearedOn, lifecycle, lastTranslationTimeRef, isResponseInProgressRef,
                  pendingTranslationRef, isPTTActiveRef, isPTTUserSpeaking,
                  outstanding, now, ticks, deltas, requests, appended, issued, queued >>

\* handleTransportEvent, case response.done; left is what the backend still holds
HandleResponseDone(left) ==
  IF DrainsPending
  THEN /\ IF SendsRequest(pendingTranslationRef)
          THEN /\ isResponseInProgressRef' = TRUE
               /\ requests' = Append(requests, RequestText(pendingTranslationRef))
               /\ outstanding' = Append(left, "translation")
               /\ issued' = 1
          ELSE /\ isResponseInProgressRef' = FALSE
               /\ requests' = requests
               /\ outstanding' = left
               /\ issued' = 0
       /\ pendingTranslationRef' = PendingAfterDrain
  ELSE /\ isResponseInProgressRef' = FALSE
       /\ outstanding' = left
       /\ issued' = 0
       /\ UNCHANGED << pendingTranslationRef, requests >>

\* the backend completes the i-th response it holds
ResponseDone(i) ==
  /\ sessionRef \in open
  /\ i \in DOMAIN outstanding
  /\ HandleResponseDone(RemoveAt(outstanding, i))
  /\ last' = Seen("response.done", <<outstanding[i]>>, FALSE)
  /\ UNCHANGED << memoryState, clearedOn, lifecycle, accumulatedTranscriptionRef, lastTranslationTimeRef,
                  isPTTActiveRef, isPTTUserSpeaking, now, ticks, deltas, appended,
                  sawCompleted, queued >>

\* handleTransportEvent, cases response.audio_transcript.done / .delta and default
OtherTags == {"response.audio_transcript.done", "response.audio_transcript.delta", "session.updated"}

OtherEvent(tag) ==
  /\ sessionRef \in open
  /\ last' = Did("other")
  /\ UNCHANGED << memoryState, clearedOn, lifecycle, refs, hist, isPTTActiveRef, isPTTUserSpeaking,
                  outstanding, now, ticks, deltas >>

\* the backend answers speech on its own: turn_detection.create_response
ServerVadResponse ==
  /\ sessionRef \in open
  /\ Len(outstanding) < MaxOutstanding
  /\ outstanding' = Append(outstanding, "vad")
  /\ last' = Did("other")
  /\ UNCHANGED << memoryState, clearedOn, lifecycle, refs, hist, isPTTActiveRef, isPTTUserSpeaking,
                  now, ticks, deltas >>

TickFlushes(d) ==
  /\ ticks < MaxTicks
  /\ now' = now + d
  /\ ticks' = ticks + 1
  /\ last' = Did("other")
  /\ IF ShouldTranslate(accumulatedTranscriptionRef, now + d, lastTranslationTimeRef)
        /\ FlushGuard(accumulatedTranscriptionRef)
     THEN /\ pendingTranslationRef' =
               JoinPending(pendingTranslationRef, Trim(accumulatedTranscriptionRef))
          /\ accumulatedTranscriptionRef' = <<>>
          /\ lastTranslationTimeRef' = now + d
          /\ UNCHANGED isResponseInProgressRef
     ELSE UNCHANGED refs
  /\ UNCHANGED << memoryState, clearedOn, lifecycle, hist, isPTTActiveRef, isPTTUserSpeaking,
                  outstanding, deltas >>

\* Date.now() advances
Tick(d) ==
  /\ ticks < MaxTicks
  /\ now' = now + d
  /\ ticks' = ticks + 1
  /\ last' = Did("other")
  /\ UNCHANGED << memoryState, clearedOn, lifecycle, refs, hist, isPTTActiveRef, isPTTUserSpeaking,
                  outstanding, deltas >>

\* ------------------------------------------------------------ the lifecycle
\* if (sessionRef.current) return; // already connected
AlreadyConnected == sessionRef # 0

\* connect(), up to its first await; at most cap sessions are constructed
ConnectWithin(c, cap) ==
  /\ pc[c] = "idle"
  /\ created + Cardinality({k \in Conns : pc[k] = "awaitKey"}) < cap
  /\ IF AlreadyConnected
     THEN /\ UNCHANGED << status, pc >>
          /\ last' = Called("connect", FALSE, FALSE)
     ELSE /\ status' = "CONNECTING"
          /\ pc' = [pc EXCEPT ![c] = "awaitKey"]
          /\ last' = Called("connect", FALSE, TRUE)
  /\ UNCHANGED << memoryState, clearedOn, sessionRef, sess, created, muted, open, closed, refs, hist, isPTTActiveRef,
                  isPTTUserSpeaking, outstanding, now, ticks, deltas >>

Connect(c) == ConnectWithin(c, MaxConnects)

\* getEphemeralKey() resolved: the session is constructed and its handshake started
KeyResolved(c) ==
  /\ pc[c] = "awaitKey"
  /\ created' = created + 1
  /\ sessionRef' = created + 1
  /\ sess' = [sess EXCEPT ![c] = created + 1]
  /\ pc' = [pc EXCEPT ![c] = "awaitHandshake"]
  /\ muted' = FALSE
  /\ outstanding' = <<>>
  /\ last' = Called("keyResolved", FALSE, FALSE)
  /\ UNCHANGED << memoryState, clearedOn, status, open, closed, refs, hist, isPTTActiveRef, isPTTUserSpeaking,
                  now, ticks, deltas >>

\* getEphemeralKey() rejected: connect() throws
KeyRejected(c) ==
  /\ pc[c] = "awaitKey"
  /\ pc' = [pc EXCEPT ![c] = "idle"]
  /\ last' = Called("keyRejected", TRUE, FALSE)
  /\ UNCHANGED << memoryState, clearedOn, sessionRef, status, sess, created, muted, open, closed, refs, hist,
                  isPTTActiveRef, isPTTUserSpeaking, outstanding, now, ticks, deltas >>

ResetOnConnectKeepsPending ==
  /\ accumulatedTranscriptionRef' = <<>>
  /\ lastTranslationTimeRef' = 0
  /\ isResponseInProgressRef' = FALSE
  /\ pendingTranslationRef' = pendingTranslationRef
  /\ isPTTActiveRef' = FALSE

ResetOnConnectToNow ==
  /\ accumulatedTranscriptionRef' = <<>>
  /\ lastTranslationTimeRef' = now
  /\ isResponseInProgressRef' = FALSE
  /\ pendingTranslationRef' = <<>>
  /\ isPTTActiveRef' = FALSE

\* connect(), after the handshake: the refs are reset
ResetOnConnect ==
  /\ accumulatedTranscriptionRef' = <<>>
  /\ lastTranslationTimeRef' = 0
  /\ isResponseInProgressRef' = FALSE
  /\ pendingTranslationRef' = <<>>
  /\ isPTTActiveRef' = FALSE

\* sessionRef.current.connect() resolved: the rest of connect()
HandshakeResolved(c) ==
  /\ pc[c] = "awaitHandshake"
  /\ open' = IF sess[c] \in closed THEN open ELSE open \cup {sess[c]}
  /\ ResetOnConnect
  /\ status' = "CONNECTED"
  /\ pc' = [pc EXCEPT ![c] = "idle"]
  /\ requests' = <<>>
  /\ appended' = <<>>
  /\ sawCompleted' = FALSE
  /\ issued' = 0
  /\ queued' = <<>>
  /\ last' = Called("handshakeResolved", FALSE, TRUE)
  /\ UNCHANGED << memoryState, clearedOn, sessionRef, sess, created, muted, closed, isPTTUserSpeaking, outstanding,
                  now, ticks, deltas >>

\* sessionRef.current.connect() rejected: connect() throws
HandshakeRejected(c) ==
  /\ pc[c] = "awaitHandshake"
  /\ pc' = [pc EXCEPT ![c] = "idle"]
  /\ last' = Called("handshakeRejected", TRUE, FALSE)
  /\ UNCHANGED << memoryState, clearedOn, sessionRef, status, sess, created, muted, open, closed, refs, hist,
                  isPTTActiveRef, isPTTUserSpeaking, outstanding, now, ticks, deltas >>

DisconnectRefsCleared ==
  /\ accumulatedTranscriptionRef' = <<>>
  /\ isResponseInProgressRef' = FALSE
  /\ pendingTranslationRef' = <<>>
  /\ UNCHANGED lastTranslationTimeRef

\* disconnect() assigns none of the scheduler's refs
DisconnectRefs == UNCHANGED refs

\* disconnect(), called by disconnectFromRealtime
Disconnect ==
  /\ closed' = IF sessionRef # 0 THEN closed \cup {sessionRef} ELSE closed
  /\ open' = open \ {sessionRef}
  /\ sessionRef' = 0
  /\ status' = "DISCONNECTED"
  /\ isPTTUserSpeaking' = FALSE
  /\ outstanding' = <<>>
  /\ DisconnectRefs
  /\ last' = Called("disconnect", FALSE, TRUE)
  /\ UNCHANGED << memoryState, clearedOn, pc, sess, created, muted, hist, isPTTActiveRef, now, ticks, deltas >>

\* ------------------------------------------------- the other response.create
\* sendEvent({type: 'response.create'}) reaches the backend of an open session
SendResponseCreate(origin) ==
  IF sessionRef \in open
  THEN outstanding' = Append(outstanding, origin)
  ELSE UNCHANGED outstanding

\* what a talk-button handler found: the press it had accepted and the session
\* that press cleared
Pressed(op) ==
  [Called(op, FALSE, FALSE) EXCEPT !.pressed = isPTTUserSpeaking, !.clearedBefore = clearedOn]

HandleTalkButtonDown ==
  /\ IF status # "CONNECTED"
     THEN UNCHANGED << isPTTUserSpeaking, clearedOn >>
     ELSE /\ isPTTUserSpeaking' = TRUE
          /\ clearedOn' = IF sessionRef \in open THEN sessionRef ELSE clearedOn
  /\ last' = Did("other")
  /\ UNCHANGED << memoryState, lifecycle, refs, hist, isPTTActiveRef, outstanding, now, ticks, deltas >>

HandleTalkButtonUp ==
  /\ (status = "CONNECTED" /\ isPTTUserSpeaking /\ sessionRef \in open) =>
        Len(outstanding) < MaxOutstanding
  /\ IF status # "CONNECTED" \/ ~isPTTUserSpeaking
     THEN /\ UNCHANGED << isPTTUserSpeaking, outstanding, clearedOn >>
          /\ last' = Pressed("talkUp")
     ELSE /\ isPTTUserSpeaking' = FALSE
          /\ SendResponseCreate("ptt")
          /\ clearedOn' = 0
          /\ last' = [Pressed("talkUp") EXCEPT !.sent = sessionRef \in open]
  /\ UNCHANGED << memoryState, lifecycle, refs, hist, isPTTActiveRef, now, ticks, deltas >>

\* updateSession(true) greets once the status is CONNECTED
SendSimulatedUserMessage ==
  /\ status = "CONNECTED"
  /\ sessionRef \in open => Len(outstanding) < MaxOutstanding
  /\ SendResponseCreate("simulated")
  /\ last' = Did("other")
  /\ UNCHANGED << memoryState, clearedOn, lifecycle, refs, hist, isPTTActiveRef, isPTTUserSpeaking, now,
                  ticks, deltas >>

\* ------------------------------------------------ operations while no session
\* handleTransportEvent runs for a delta of a session that disconnect() closed
LateTranscriptionDelta(d) ==
  /\ sessionRef = 0
  /\ closed # {}
  /\ deltas < MaxDeltas
  /\ HandleDelta(d)
  /\ deltas' = deltas + 1
  /\ appended' = appended \o d
  /\ last' = Seen("delta", d, FlushesOn(d))
  /\ UNCHANGED << memoryState, clearedOn, lifecycle, isPTTActiveRef, isPTTUserSpeaking, now, ticks, sawCompleted >>

\* handleTransportEvent runs for a response.done of a session that disconnect() closed
LateResponseDone ==
  /\ sessionRef = 0
  /\ closed # {}
  /\ HandleResponseDone(outstanding)
  /\ last' = Seen("response.done", <<"late">>, FALSE)
  /\ UNCHANGED << memoryState, clearedOn, lifecycle, accumulatedTranscriptionRef, lastTranslationTimeRef,
                  isPTTActiveRef, isPTTUserSpeaking, now, ticks, deltas, appended,
                  sawCompleted, queued >>

\* assertconnected
NotConnected == sessionRef = 0

\* sendUserText: assertconnected(), then sessionRef.current.sendMessage(text)
SendUserText ==
  /\ sessionRef \in open => Len(outstanding) < MaxOutstanding
  /\ IF NotConnected
     THEN /\ last' = Called("sendUserText", TRUE, FALSE)
          /\ UNCHANGED outstanding
     ELSE /\ last' = [Called("sendUserText", FALSE, FALSE) EXCEPT !.sent = TRUE]
          /\ SendResponseCreate("user")
  /\ UNCHANGED << memoryState, clearedOn, lifecycle, refs, hist, isPTTActiveRef, isPTTUserSpeaking, now,
                  ticks, deltas >>

\* sendEvent: sessionRef.current?.transport.sendEvent(ev), for an event that
\* asks for no response
SendEvent ==
  /\ last' = [Called("sendEvent", FALSE, FALSE) EXCEPT !.sent = sessionRef # 0]
  /\ UNCHANGED << memoryState, clearedOn, lifecycle, refs, hist, isPTTActiveRef, isPTTUserSpeaking,
                  outstanding, now, ticks, deltas >>

\* ------------------------------------------------------------ the dispatcher
SwitchCasesFallThrough ==
  << [label |-> "conversation.item.input_audio_transcription.completed",
      body |-> "completed", breaks |-> FALSE],
     [label |-> "conversation.item.input_audio_transcription.delta",
      body |-> "delta", breaks |-> TRUE],
     [label |-> "response.audio_transcript.done", body |-> "audio.done", breaks |-> TRUE],
     [label |-> "response.audio_transcript.delta", body |-> "audio.delta", breaks |-> TRUE],
     [label |-> "response.done", body |-> "response.done", breaks |-> TRUE],
     [label |-> "", body |-> "default", breaks |-> TRUE] >>

\* switch (event.type): the cases in source order, each ended by break; the
\* last one is default
SwitchCases ==
  << [label |-> "conversation.item.input_audio_transcription.completed",
      body |-> "completed", breaks |-> TRUE],
     [label |-> "conversation.item.input_audio_transcription.delta",
      body |-> "delta", breaks |-> TRUE],
     [label |-> "response.audio_transcript.done", body |-> "audio.done", breaks |-> TRUE],
     [label |-> "response.audio_transcript.delta", body |-> "audio.delta", breaks |-> TRUE],
     [label |-> "response.done", body |-> "response.done", breaks |-> TRUE],
     [label |-> "", body |-> "default", breaks |-> TRUE] >>

\* the values of event.type delivered: the five of the cases and two others
EventTags ==
  { SwitchCases[k].label : k \in 1..(Len(SwitchCases) - 1) }
    \cup { "session.updated", "input_audio_buffer.speech_started" }

\* the case the switch jumps to: the first whose label equals the tag, else default
CaseIndex(tag) ==
  LET hits == { k \in 1..(Len(SwitchCases) - 1) : SwitchCases[k].label = tag }
  IN  IF hits = {} THEN Len(SwitchCases)
      ELSE CHOOSE k \in hits : \A j \in hits : k <= j

\* the bodies run from case k on: execution goes on into the next case unless
\* the body ends with break
RECURSIVE BodiesFrom(_)
BodiesFrom(k) ==
  IF k = Len(SwitchCases) \/ SwitchCases[k].breaks
  THEN << SwitchCases[k].body >>
  ELSE << SwitchCases[k].body >> \o BodiesFrom(k + 1)

CasesRun(tag) == BodiesFrom(CaseIndex(tag))

\* the delta handler when transport.sendEvent throws: the flag was set before
\* the call, and the lines after the call do not run
HandleDeltaSendThrows(d) ==
  /\ isResponseInProgressRef' = TRUE
  /\ accumulatedTranscriptionRef' = AppendDelta(accumulatedTranscriptionRef, d)
  /\ UNCHANGED << lastTranslationTimeRef, pendingTranslationRef, requests, outstanding,
                  issued, queued >>

\* the response.done handler when transport.sendEvent throws
HandleResponseDoneSendThrows(left) ==
  /\ isResponseInProgressRef' = TRUE
  /\ outstanding' = left
  /\ issued' = 0
  /\ UNCHANGED << pendingTranslationRef, requests >>

HandleForwardedResets ==
  /\ accumulatedTranscriptionRef' = <<>>
  /\ UNCHANGED << lastTranslationTimeRef, isResponseInProgressRef, pendingTranslationRef >>

\* the cases response.audio_transcript.done, response.audio_transcript.delta
\* and default only call historyHandlers or logServerEvent
HandleForwarded == UNCHANGED refs

\* whether handling the event calls transport.sendEvent
DeltaSends(d) ==
  /\ FlushesOn(d)
  /\ ~InFlight
  /\ SendsRequest(Trim(AppendDelta(accumulatedTranscriptionRef, d)))

ResponseDoneSends == DrainsPending /\ SendsRequest(pendingTranslationRef)

\* handleTransportEvent for an event of the open session: tag is event.type,
\* d is event.delta, i is the response a response.done is about, and sendOk
\* tells whether transport.sendEvent returns (TRUE) or throws (FALSE)
HandleTransportEvent(tag, d, i, sendOk) ==
  LET body == Head(CasesRun(tag))
      sends == \/ body = "delta" /\ DeltaSends(d)
               \/ body = "response.done" /\ ResponseDoneSends
  IN  /\ sessionRef \in open
      /\ ~sends => sendOk
      /\ CASE body = "completed" ->
                /\ accumulatedTranscriptionRef' = <<>>
                /\ sawCompleted' = TRUE
                /\ UNCHANGED << lastTranslationTimeRef, isResponseInProgressRef,
                                pendingTranslationRef, outstanding, deltas, requests,
                                appended, issued, queued >>
           [] body = "delta" ->
                /\ deltas < MaxDeltas
                /\ (sends /\ sendOk) => Len(outstanding) < MaxOutstanding
                /\ IF sendOk THEN HandleDelta(d) ELSE HandleDeltaSendThrows(d)
                /\ deltas' = deltas + 1
                /\ appended' = appended \o d
                /\ UNCHANGED sawCompleted
           [] body = "response.done" ->
                /\ i \in DOMAIN outstanding
                /\ IF sendOk THEN HandleResponseDone(RemoveAt(outstanding, i))
                             ELSE HandleResponseDoneSendThrows(RemoveAt(outstanding, i))
                /\ UNCHANGED << accumulatedTranscriptionRef, lastTranslationTimeRef,
                                deltas, appended, sawCompleted, queued >>
           [] OTHER ->
                /\ HandleForwarded
                /\ UNCHANGED << hist, outstanding, deltas >>
      /\ last' = [Seen(body, IF body = "delta" THEN d ELSE <<>>,
                       body = "delta" /\ FlushesOn(d))
                    EXCEPT !.tag = tag, !.ran = CasesRun(tag), !.threw = ~sendOk]
      /\ UNCHANGED << memoryState, clearedOn, lifecycle, isPTTActiveRef, isPTTUserSpeaking, now, ticks >>

InterruptRefsCleared ==
  /\ isResponseInProgressRef' = FALSE
  /\ UNCHANGED << accumulatedTranscriptionRef, lastTranslationTimeRef,
                  pendingTranslationRef >>

\* interrupt assigns none of the scheduler's refs
InterruptRefs == UNCHANGED refs

\* interrupt: sessionRef.current?.interrupt()
Interrupt ==
  /\ InterruptRefs
  /\ last' = [Called("interrupt", FALSE, FALSE) EXCEPT !.sent = sessionRef # 0]
  /\ UNCHANGED << memoryState, clearedOn, lifecycle, hist, isPTTActiveRef, isPTTUserSpeaking,
                  outstanding, now, ticks, deltas >>

MuteRefsCleared ==
  /\ isResponseInProgressRef' = FALSE
  /\ UNCHANGED << accumulatedTranscriptionRef, lastTranslationTimeRef,
                  pendingTranslationRef >>

\* mute assigns none of the scheduler's refs
MuteRefs == UNCHANGED refs

\* mute: sessionRef.current?.mute(m)
Mute(m) ==
  /\ muted' = IF sessionRef # 0 THEN m ELSE muted
  /\ MuteRefs
  /\ last' = [Called("mute", FALSE, FALSE)
                EXCEPT !.arg = IF m THEN <<"t">> ELSE <<"f">>]
  /\ UNCHANGED << memoryState, clearedOn, sessionRef, status, pc, sess, created, open, closed, hist,
                  isPTTActiveRef, isPTTUserSpeaking, outstanding, now, ticks, deltas >>

\* ------------------------------------------------------------ specification
Next ==
  \/ \E d \in Deltas : TranscriptionDelta(d)
  \/ TranscriptionCompleted
  \/ \E i \in 1..MaxOutstanding : ResponseDone(i)
  \/ \E tag \in OtherTags : OtherEvent(tag)
  \/ ServerVadResponse
  \/ \E d \in TickSteps : Tick(d)
  \/ Connect(1)
  \/ KeyResolved(1)
  \/ HandshakeResolved(1)
  \/ Disconnect
  \/ HandleTalkButtonDown
  \/ HandleTalkButtonUp
  \/ SendSimulatedUserMessage

Spec == Init /\ [][Next]_vars

\* the backend completes every response it holds: the oldest is not left
\* waiting for ever while the session stays open
FairSpec == Spec /\ WF_vars(ResponseDone(1))

\* the lifecycle under every interleaving: connect() called again and while
\* another call awaits, both outcomes of each await, disconnect() at any
\* time, and the handlers and send operations with and without a session
LifeNext ==
  \/ \E c \in Conns : ConnectWithin(c, MaxSessions)
  \/ \E c \in Conns : KeyResolved(c)
  \/ \E c \in Conns : KeyRejected(c)
  \/ \E c \in Conns : HandshakeResolved(c)
  \/ \E c \in Conns : HandshakeRejected(c)
  \/ Disconnect
  \/ \E d \in LifeDeltas : TranscriptionDelta(d)
  \/ \E i \in 1..MaxOutstanding : ResponseDone(i)
  \/ \E d \in LifeDeltas : LateTranscriptionDelta(d)
  \/ LateResponseDone
  \/ SendUserText
  \/ SendEvent

LifeSpec == Init /\ [][LifeNext]_vars

\* the whole dispatcher with both outcomes of transport.sendEvent, and the
\* operations that go to the session only
EventNext ==
  \/ Connect(1)
  \/ KeyResolved(1)
  \/ HandshakeResolved(1)
  \/ Disconnect
  \/ \E tag \in EventTags, d \in LifeDeltas, i \in 1..MaxOutstanding, sendOk \in BOOLEAN :
        HandleTransportEvent(tag, d, i, sendOk)
  \/ Interrupt
  \/ \E m \in BOOLEAN : Mute(m)

EventSpec == Init /\ [][EventNext]_vars

\* ------------------------------------------------------------- memory system
\* the store a store instance reads and writes: every ChromaVectorStore is a view
\* of the one named collection, every SimpleVectorStore holds its own documents
Backing(i) == IF storeKind = "chroma" THEN 0 ELSE i

DocsOf(i) == IF i = 0 THEN {} ELSE storeDocs[Backing(i)]

\* the retriever hands over the similarityTopK nearest documents
SourceNodes(docs) ==
  { S \in SUBSET docs :
      Cardinality(S) = IF Cardinality(docs) <= SimilarityTopK
                       THEN Cardinality(docs) ELSE SimilarityTopK }

\* MemoryService.applyFilters, the types filter
ApplyFilters(nodes, types) ==
  IF types = {} THEN nodes ELSE { d \in nodes : d.type \in types }

\* MemoryService.queryMemory: query.limit is not read
QueryMemory(nodes, types, limit) == ApplyFilters(nodes, types)

\* storeMemory: if (!this.index) throw; queryMemory: if (!this.queryEngine) throw;
\* getMemoryStore: if (!vectorStore || !embedding) throw
NotInitializedNever(handle) == FALSE

NotInitialized(handle) == handle = 0

\* ensureMemoryServiceInitialized: if (!memoryServiceInitialized)
NeedsInitNever(flag) == FALSE

NeedsInit(flag) == ~flag

\* the POST requests in progress that will store a document
Storing == { q \in Reqs : reqPc[q] # "idle" /\ reqKind[q] = "store" }

\* GET, POST and DELETE up to their first await
StartRequest(r, kind, arg) ==
  /\ reqPc[r] = "idle"
  /\ started < MaxMemRequests
  /\ kind = "store" => stored + Cardinality(Storing) < MaxDocs
  /\ started' = started + 1
  /\ reqKind' = [reqKind EXCEPT ![r] = kind]
  /\ reqArg' = [reqArg EXCEPT ![r] = arg]
  /\ reqPc' = [reqPc EXCEPT ![r] =
                 IF kind = "reset" \/ NeedsInit(memoryServiceInitialized)
                 THEN "initStore" ELSE "op"]
  /\ memLast' = Answer("start", r, kind, 0)
  /\ UNCHANGED << sessionState, storeKind, vectorStore, storeCount, storeDocs, index,
                  queryEngine, memoryServiceInitialized, stored, beforeReset >>

\* config.ts initializeMemoryStore(): a new store instance replaces vectorStore
InitializeMemoryStore(r) ==
  /\ reqPc[r] = "initStore"
  /\ \E k \in (IF storeKind = "" THEN StoreKinds ELSE {storeKind}) : storeKind' = k
  /\ storeCount' = storeCount + 1
  /\ vectorStore' = storeCount + 1
  /\ reqPc' = [reqPc EXCEPT ![r] = "initService"]
  /\ memLast' = Answer("initStore", r, reqKind[r], 0)
  /\ UNCHANGED << sessionState, storeDocs, index, queryEngine, memoryServiceInitialized,
                  reqKind, reqArg, started, stored, beforeReset >>

\* the catch of the route: console.error and a 500 response
InitializeFails(r, at) ==
  /\ reqPc[r] = at
  /\ reqPc' = [reqPc EXCEPT ![r] = "idle"]
  /\ memLast' = [Answer("initFailed", r, reqKind[r], 500) EXCEPT !.failed = TRUE]
  /\ UNCHANGED << sessionState, storeKind, vectorStore, storeCount, storeDocs, index,
                  queryEngine, memoryServiceInitialized, reqKind, reqArg, started, stored,
                  beforeReset >>

InitializeMemoryStoreThrows(r) == InitializeFails(r, "initStore")

ServiceInitializeThrows(r) == InitializeFails(r, "initService")

\* MemoryService.initialize() on the current store, then memoryServiceInitialized = true;
\* DELETE answers { status: 'reset' } here, GET and POST go on to their operation
ServiceInitialize(r) ==
  /\ reqPc[r] = "initService"
  /\ index' = vectorStore
  /\ queryEngine' = vectorStore
  /\ memoryServiceInitialized' = TRUE
  /\ IF reqKind[r] = "reset"
       THEN /\ reqPc' = [reqPc EXCEPT ![r] = "idle"]
            /\ beforeReset' = UNION { storeDocs[i] : i \in StoreIds }
            /\ memLast' = Answer("reset", r, "reset", 200)
       ELSE /\ reqPc' = [reqPc EXCEPT ![r] = "op"]
            /\ beforeReset' = beforeReset
            /\ memLast' = Answer("initService", r, reqKind[r], 0)
  /\ UNCHANGED << sessionState, storeKind, vectorStore, storeCount, storeDocs, reqKind,
                  reqArg, started, stored >>

\* GET ?query=..&limit=..&types=..: MemoryService.queryMemory
Search(r) ==
  /\ reqPc[r] = "op"
  /\ reqKind[r] = "search"
  /\ reqPc' = [reqPc EXCEPT ![r] = "idle"]
  /\ IF NotInitialized(queryEngine)
       THEN memLast' = Answer("search", r, "search", 500)
       ELSE \E nodes \in SourceNodes(DocsOf(queryEngine)) :
              memLast' = [Answer("search", r, "search", 200) EXCEPT
                            !.results = QueryMemory(nodes, reqArg[r].types, reqArg[r].limit),
                            !.limit = reqArg[r].limit]
  /\ UNCHANGED << sessionState, storeKind, vectorStore, storeCount, storeDocs, index,
                  queryEngine, memoryServiceInitialized, reqKind, reqArg, started, stored,
                  beforeReset >>

\* GET ?action=conversation: getConversationMemory, one queryMemory per type
ConversationMemory(r) ==
  /\ reqPc[r] = "op"
  /\ reqKind[r] = "conversation"
  /\ reqPc' = [reqPc EXCEPT ![r] = "idle"]
  /\ IF NotInitialized(queryEngine)
       THEN memLast' = Answer("conversation", r, "conversation", 500)
       ELSE \E nodes \in SourceNodes(DocsOf(queryEngine)) :
              memLast' = [Answer("conversation", r, "conversation", 200) EXCEPT
                            !.results = UNION { QueryMemory(nodes, {t}, 100) : t \in DocTypes }]
  /\ UNCHANGED << sessionState, storeKind, vectorStore, storeCount, storeDocs, index,
                  queryEngine, memoryServiceInitialized, reqKind, reqArg, started, stored,
                  beforeReset >>

\* POST action=store: MemoryService.storeMemory inserts into the index
StoreMemory(r) ==
  /\ reqPc[r] = "op"
  /\ reqKind[r] = "store"
  /\ reqPc' = [reqPc EXCEPT ![r] = "idle"]
  /\ IF NotInitialized(index)
       THEN /\ memLast' = Answer("store", r, "store", 500)
            /\ UNCHANGED << storeDocs, stored >>
       ELSE /\ stored' = stored + 1
            /\ storeDocs' = [storeDocs EXCEPT ![Backing(index)] =
                               @ \cup {[id |-> stored + 1, type |-> reqArg[r].type]}]
            /\ memLast' = Answer("store", r, "store", 200)
  /\ UNCHANGED << sessionState, storeKind, vectorStore, storeCount, index, queryEngine,
                  memoryServiceInitialized, reqKind, reqArg, started, beforeReset >>

\* tools.ts searchMemoryTool: queryMemory with limit = 5 unless the agent gives one;
\* an uninitialized service is answered { error, results: [] }
SearchMemoryTool(limit, types) ==
  /\ started < MaxMemRequests
  /\ started' = started + 1
  /\ IF NotInitialized(queryEngine)
       THEN memLast' = Answer("search", 0, "tool", 500)
       ELSE \E nodes \in SourceNodes(DocsOf(queryEngine)) :
              memLast' = [Answer("search", 0, "tool", 200) EXCEPT
                            !.results = QueryMemory(nodes, types, limit),
                            !.limit = limit]
  /\ UNCHANGED << sessionState, storeKind, vectorStore, storeCount, storeDocs, index,
                  queryEngine, memoryServiceInitialized, reqPc, reqKind, reqArg, stored,
                  beforeReset >>

MemNext ==
  \/ \E r \in Reqs, l \in Limits, ts \in TypeFilters :
       StartRequest(r, "search", [limit |-> l, types |-> ts, type |-> ""])
  \/ \E r \in Reqs : StartRequest(r, "conversation", NoArg)
  \/ \E r \in Reqs, t \in DocTypes :
       StartRequest(r, "store", [limit |-> 0, types |-> {}, type |-> t])
  \/ \E r \in Reqs : StartRequest(r, "reset", NoArg)
  \/ \E r \in Reqs : InitializeMemoryStore(r)
  \/ \E r \in Reqs : InitializeMemoryStoreThrows(r)
  \/ \E r \in Reqs : ServiceInitialize(r)
  \/ \E r \in Reqs : ServiceInitializeThrows(r)
  \/ \E r \in Reqs : Search(r)
  \/ \E r \in Reqs : ConversationMemory(r)
  \/ \E r \in Reqs : StoreMemory(r)
  \/ \E l \in Limits, ts \in TypeFilters : SearchMemoryTool(l, ts)

MemSpec == Init /\ [][MemNext]_vars

\* ------------------------------------------------------------- the service alone
\* tools.ts storeMemoryTool: MemoryService.storeMemory without the route; a
\* service that is not initialized is answered { error, status: 'failed' }
StoreMemoryTool(t) ==
  /\ started < MaxMemRequests
  /\ stored + Cardinality(Storing) < MaxDocs
  /\ started' = started + 1
  /\ IF NotInitialized(index)
       THEN /\ memLast' = Answer("store", 0, "tool", 500)
            /\ UNCHANGED << storeDocs, stored >>
       ELSE /\ stored' = stored + 1
            /\ storeDocs' = [storeDocs EXCEPT ![Backing(index)] =
                               @ \cup {[id |-> stored + 1, type |-> t]}]
            /\ memLast' = Answer("store", 0, "tool", 200)
  /\ UNCHANGED << sessionState, storeKind, vectorStore, storeCount, index, queryEngine,
                  memoryServiceInitialized, reqPc, reqKind, reqArg, beforeReset >>

\* MemoryService.initialize() called on its own: getMemoryStore() throws while
\* there is no store, and VectorStoreIndex.fromVectorStore may reject
InitializeAlone(ok) ==
  /\ started < MaxMemRequests
  /\ started' = started + 1
  /\ IF NotInitialized(vectorStore) \/ ~ok
       THEN /\ memLast' = Answer("initialize", 0, "service", 500)
            /\ UNCHANGED << index, queryEngine >>
       ELSE /\ index' = vectorStore
            /\ queryEngine' = vectorStore
            /\ memLast' = Answer("initialize", 0, "service", 200)
  /\ UNCHANGED << sessionState, storeKind, vectorStore, storeCount, storeDocs,
                  memoryServiceInitialized, reqPc, reqKind, reqArg, stored, beforeReset >>

\* the service and the store called in any order, by the route and by the tools
ServiceNext ==
  \/ \E r \in Reqs : StartRequest(r, "search", [limit |-> DefaultApiLimit, types |-> {}, type |-> ""])
  \/ \E r \in Reqs : StartRequest(r, "store", [limit |-> 0, types |-> {}, type |-> "fact"])
  \/ \E r \in Reqs : InitializeMemoryStore(r)
  \/ \E r \in Reqs : InitializeMemoryStoreThrows(r)
  \/ \E r \in Reqs : ServiceInitialize(r)
  \/ \E r \in Reqs : ServiceInitializeThrows(r)
  \/ \E r \in Reqs : Search(r)
  \/ \E r \in Reqs : StoreMemory(r)
  \/ SearchMemoryTool(DefaultToolLimit, {})
  \/ \E t \in DocTypes : StoreMemoryTool(t)
  \/ \E ok \in BOOLEAN : InitializeAlone(ok)

ServiceSpec == Init /\ [][ServiceNext]_vars

\* ------------------------------------------------------------- applyFilters
\* the callback of results.filter: every test returns false on a mismatch
Passes(d, f) ==
  /\ ~(f.conversationId # "" /\ d.conversationId # f.conversationId)
  /\ ~(f.userId # "" /\ d.userId # f.userId)
  /\ ~(f.agentName # "" /\ d.agentName # f.agentName)
  /\ ~(f.typeGiven /\ d.type \notin f.type)
  /\ ~(f.rangeGiven /\ (d.timestamp < f.start \/ d.timestamp > f.end))
  /\ ~(f.importanceGiven /\ d.importance # 0
         /\ ((f.min # 0 /\ d.importance < f.min) \/ (f.max # 0 /\ d.importance > f.max)))
  /\ ~(f.tagsGiven /\ d.hasTags /\ f.tags \cap d.tags = {})

\* MemoryService.applyFilters(results, filters)
FilterResults(results, f) ==
  IF ~f.given THEN results ELSE SelectSeq(results, LAMBDA d : Passes(d, f))

\* applyFilters is called on some results with some filters
ApplyFiltersCall(results, f) ==
  /\ memLast' = [Answer("applyFilters", 0, "", 0) EXCEPT
                   !.input = results, !.filters = f, !.output = FilterResults(results, f)]
  /\ UNCHANGED << sessionState, storeKind, vectorStore, storeCount, storeDocs, index,
                  queryEngine, memoryServiceInitialized, reqPc, reqKind, reqArg, started,
                  stored, beforeReset >>

FilterNext == \E results \in SampleResults, f \in SampleFilters : ApplyFiltersCall(results, f)

FilterSpec == Init /\ [][FilterNext]_vars

\* ------------------------------------------------------- reading the history
\* the characters of s that are not whitespace, in order
Squash(s) == SelectSeq(s, LAMBDA c : ~IsSpace(c))

RECURSIVE Flatten(_)
Flatten(ss) == IF ss = <<>> THEN <<>> ELSE Head(ss) \o Flatten(Tail(ss))

RECURSIVE JoinWithSpaces(_)
JoinWithSpaces(ss) ==
  IF ss = <<>> THEN <<>>
  ELSE IF Len(ss) = 1 THEN ss[1]
  ELSE ss[1] \o <<" ">> \o JoinWithSpaces(Tail(ss))

\* the number of whitespace-separated tokens of s: its maximal runs of other characters
TokenCount(s) ==
  Cardinality({i \in DOMAIN s : ~IsSpace(s[i]) /\ (i = 1 \/ IsSpace(s[i - 1]))})

\* the buffer the last delta handler evaluated, and the time since the last flush
BufferEvaluated == last.bufferBefore \o last.arg
Elapsed == last.at - last.lastBefore
ClientRequests == {i \in DOMAIN outstanding : outstanding[i] # "vad"}

\* ------------------------------------------------------------------- claims
\* C1: a delta handled while a request is in flight issues no request, and a
\* flush it makes only extends the pending text; the scheduler issues at most
\* one request between two consecutive response.done events.
C1_SingleFlight ==
  /\ (last.op = "delta" /\ last.inFlightBefore) =>
        /\ Len(requests) = last.requestsBefore
        /\ isResponseInProgressRef
        /\ last.flushed => /\ pendingTranslationRef # last.pendingBefore
                           /\ Squash(pendingTranslationRef) =
                                Squash(last.pendingBefore) \o Squash(BufferEvaluated)
  /\ issued <= 1

C1_Witness ==
  /\ last.op = "delta" /\ last.inFlightBefore /\ last.flushed
  /\ Truthy(last.pendingBefore)
  /\ issued = 1

\* C2: as long as only deltas and response.done events were handled in the
\* connection, the requests issued, then the pending text, then the buffer hold
\* exactly the non-whitespace characters of the deltas, in arrival order.
C2_NoLoss ==
  ~sawCompleted =>
    Squash(Flatten(requests) \o pendingTranslationRef \o accumulatedTranscriptionRef)
      = Squash(appended)

C2_Witness ==
  /\ ~sawCompleted
  /\ Len(requests) >= 1
  /\ Truthy(pendingTranslationRef)
  /\ Squash(accumulatedTranscriptionRef) # <<>>

\* C3: a response.done handler clears the flag; with pending text it issues
\* exactly one request carrying exactly that text, empties the pending text and
\* leaves the flag set; with no pending text it issues nothing.
C3_CoalescingDrain ==
  last.op = "response.done" =>
    IF Truthy(last.pendingBefore)
    THEN /\ Len(requests) = last.requestsBefore + 1
         /\ requests[Len(requests)] = last.pendingBefore
         /\ pendingTranslationRef = <<>>
         /\ isResponseInProgressRef
    ELSE /\ Len(requests) = last.requestsBefore
         /\ pendingTranslationRef = <<>>
         /\ ~isResponseInProgressRef

C3_Witness ==
  /\ last.op = "response.done"
  /\ Len(requests) = 2
  /\ requests[2] = last.pendingBefore
  /\ requests[1] # requests[2]

\* C4: every flush made while a request is in flight is joined to the pending
\* text with one space (or becomes it when it was empty), and the next
\* completion sends all of them in one request.
C4_CoalescingMerge ==
  /\ Truthy(pendingTranslationRef) => pendingTranslationRef = JoinWithSpaces(queued)
  /\ (last.op = "delta" /\ last.inFlightBefore /\ last.flushed) =>
        /\ queued # <<>>
        /\ queued[Len(queued)] = Trim(BufferEvaluated)
  /\ (last.op = "response.done" /\ Truthy(last.pendingBefore)) =>
        /\ Len(requests) = last.requestsBefore + 1
        /\ requests[Len(requests)] = JoinWithSpaces(queued)

C4_Witness ==
  /\ last.op = "response.done"
  /\ Truthy(last.pendingBefore)
  /\ Len(queued) >= 2

\* C5: at most one response.create sent by the client awaits its response.done.
C5_AtMostOneClientRequest == Cardinality(ClientRequests) <= 1

\* C6: a response.done of a response that is not the translation request leaves
\* the flag set and the pending text in place.
C6_OnlyOwnCompletionClears ==
  (last.op = "response.done" /\ last.arg # <<"translation">> /\ last.inFlightBefore) =>
    /\ isResponseInProgressRef
    /\ pendingTranslationRef = last.pendingBefore
    /\ Len(requests) = last.requestsBefore

\* C7: a delta that leaves 3 or more tokens in the buffer flushes, whatever the
\* time since the last flush.
C7_TokenRule ==
  (last.op = "delta" /\ TokenCount(BufferEvaluated) >= 3) => last.flushed

C7_Witness ==
  /\ last.op = "delta"
  /\ TokenCount(BufferEvaluated) >= 3
  /\ Elapsed = 0
  /\ last.flushed

\* C8 as amended: with 1 or 2 tokens a delta flushes exactly when more than
\* 1000 ms passed since the last flush.
C8_TimeRule ==
  (last.op = "delta" /\ Truthy(last.arg) /\ TokenCount(BufferEvaluated) \in {1, 2}) =>
    (last.flushed <=> Elapsed > 1000)

C8_Witness ==
  /\ last.op = "delta" /\ Truthy(last.arg)
  /\ TokenCount(BufferEvaluated) \in {1, 2}
  /\ Elapsed = 1001
  /\ last.flushed

\* C8 as stated: with 1 or 2 tokens a delta flushes exactly when at least
\* 1000 ms passed since the last flush.
C8_Original ==
  (last.op = "delta" /\ Truthy(last.arg) /\ TokenCount(BufferEvaluated) \in {1, 2}) =>
    (last.flushed <=> Elapsed >= 1000)

\* C9: a delta that leaves the buffer empty or all whitespace never flushes:
\* no request, the pending text and the last flush time unchanged.
C9_BlankNeverFlushes ==
  (last.op = "delta" /\ Squash(BufferEvaluated) = <<>>) =>
    /\ ~last.flushed
    /\ Len(requests) = last.requestsBefore
    /\ pendingTranslationRef = last.pendingBefore
    /\ lastTranslationTimeRef = last.lastBefore
    /\ isResponseInProgressRef = last.inFlightBefore

C9_Witness ==
  /\ last.op = "delta"
  /\ BufferEvaluated # <<>>
  /\ Squash(BufferEvaluated) = <<>>
  /\ Elapsed > 1000

\* what was handed to the coordinator: the requests, then the pending text
Handed == Flatten(requests) \o pendingTranslationRef

\* a delta or response.done handler takes no text out of the buffer without
\* handing it over in the same step, once
StepHandsOver ==
  /\ (last.op = "delta" /\ last.flushed) =>
        /\ accumulatedTranscriptionRef = <<>>
        /\ IF last.inFlightBefore
           THEN /\ Len(requests) = last.requestsBefore
                /\ pendingTranslationRef =
                     (IF Truthy(last.pendingBefore)
                      THEN last.pendingBefore \o <<" ">> ELSE <<>>) \o Trim(BufferEvaluated)
           ELSE /\ Len(requests) = last.requestsBefore + 1
                /\ requests[Len(requests)] = Trim(BufferEvaluated)
                /\ pendingTranslationRef = last.pendingBefore
  /\ (last.op = "delta" /\ ~last.flushed) =>
        /\ accumulatedTranscriptionRef = BufferEvaluated
        /\ Len(requests) = last.requestsBefore
        /\ pendingTranslationRef = last.pendingBefore
  /\ last.op = "response.done" => accumulatedTranscriptionRef = last.bufferBefore

\* C10 as amended: deltas and response.done events take nothing out of the
\* buffer without handing it over, once; a transcription-completed event
\* empties the buffer and hands nothing over.
C10_BufferHandOver ==
  /\ StepHandsOver
  /\ last.op = "completed" =>
        /\ accumulatedTranscriptionRef = <<>>
        /\ Len(requests) = last.requestsBefore
        /\ pendingTranslationRef = last.pendingBefore

C10_Witness ==
  /\ last.op = "delta" /\ last.flushed
  /\ Squash(last.bufferBefore) # <<>>
  /\ Squash(last.arg) # <<>>

\* C10 as stated: no event, transcription-completed included, takes text out of
\* the buffer without handing it over.
C10_Original ==
  /\ StepHandsOver
  /\ last.op = "completed" =>
        Squash(Handed \o accumulatedTranscriptionRef) = Squash(appended)

\* whether the sequence a can be read inside b from left to right
RECURSIVE IsSubsequence(_, _)
IsSubsequence(a, b) ==
  IF a = <<>> THEN TRUE
  ELSE IF b = <<>> THEN FALSE
  ELSE IF Head(a) = Head(b) THEN IsSubsequence(Tail(a), Tail(b))
  ELSE IsSubsequence(a, Tail(b))

\* C11: the characters of the requests, read in issue order and followed by
\* the pending text, are characters of the deltas in arrival order: none that
\* arrived later stands before one that arrived earlier, within a request or
\* across requests.
C11_Ordering ==
  IsSubsequence(Squash(Handed), Squash(appended))

C11_Witness ==
  /\ Len(requests) = 2
  /\ requests[1] # requests[2]
  /\ Truthy(pendingTranslationRef)

\* the last handler was a response.done that issued the pending text as a request
Drained ==
  /\ last.op = "response.done"
  /\ Truthy(last.pendingBefore)
  /\ Len(requests) = last.requestsBefore + 1
  /\ requests[Len(requests)] = last.pendingBefore

\* C12: when the backend completes every response, text put in the pending
\* text of a session that stays connected is eventually issued as a request.
C12_NoStarvation ==
  (Truthy(pendingTranslationRef) /\ sessionRef \in open) ~> (Drained \/ sessionRef \notin open)

C12_Witness ==
  /\ Drained
  /\ sessionRef \in open
  /\ Len(queued) >= 2
  /\ outstanding = <<"translation">>

\* ---------------------------------------------------- claims on the lifecycle
LifecycleMoves ==
  { <<"DISCONNECTED", "CONNECTING">>, <<"CONNECTING", "CONNECTED">>,
    <<"CONNECTED", "DISCONNECTED">>, <<"CONNECTING", "DISCONNECTED">> }

\* C13: every change of the status given to onConnectionChange is one of
\* DISCONNECTED -> CONNECTING -> CONNECTED -> DISCONNECTED or
\* CONNECTING -> DISCONNECTED.
C13_LifecycleOrder ==
  (last.notified /\ status # last.statusBefore) =>
    << last.statusBefore, status >> \in LifecycleMoves

\* C14: connect() called while the status is CONNECTING or CONNECTED throws,
\* reports nothing, starts nothing and changes no state.
C14_AlreadyConnected ==
  (last.op = "connect" /\ last.statusBefore # "DISCONNECTED") =>
    /\ last.threw
    /\ ~last.notified
    /\ status = last.statusBefore
    /\ sessionRef = last.sessionBefore

\* C15: when the key fetch or the handshake of connect() fails, connect()
\* throws, the status is DISCONNECTED again and no session is retained, so a
\* later connect() passes its guard.
C15_FailureReturnsToIdle ==
  last.op \in {"keyRejected", "handshakeRejected"} =>
    /\ last.threw
    /\ status = "DISCONNECTED"
    /\ ~AlreadyConnected

\* the same for the session alone, leaving the status to the caller
C15_NoSessionRetained ==
  last.op \in {"keyRejected", "handshakeRejected"} => ~AlreadyConnected

\* C16: disconnect() leaves no session and the status DISCONNECTED, from every
\* state; called a second time in a row it changes nothing and reports
\* nothing.
C16_DisconnectIdempotent ==
  last.op = "disconnect" =>
    /\ sessionRef = 0
    /\ status = "DISCONNECTED"
    /\ last.again =>
          /\ last.sessionBefore = 0
          /\ last.statusBefore = "DISCONNECTED"
          /\ ~last.notified

\* C17 as amended: disconnect() leaves the buffer, the in-flight flag, the
\* pending text and the last flush time as they were.
C17_DisconnectKeepsRefs ==
  last.op = "disconnect" =>
    /\ accumulatedTranscriptionRef = last.bufferBefore
    /\ isResponseInProgressRef = last.inFlightBefore
    /\ pendingTranslationRef = last.pendingBefore
    /\ lastTranslationTimeRef = last.lastBefore

C17_Witness ==
  /\ last.op = "disconnect"
  /\ last.sessionBefore # 0
  /\ Truthy(accumulatedTranscriptionRef)
  /\ isResponseInProgressRef
  /\ Truthy(pendingTranslationRef)

\* C17 as stated: right after disconnect() the buffer is empty, the in-flight
\* flag is false and the pending text is empty.
C17_Original ==
  last.op = "disconnect" =>
    /\ accumulatedTranscriptionRef = <<>>
    /\ ~isResponseInProgressRef
    /\ pendingTranslationRef = <<>>

\* C18: when connect() reaches CONNECTED the buffer and the pending text are
\* empty and the in-flight flag is false, whatever they held when disconnect()
\* was called; the requests of the connection, its pending text and its buffer
\* hold only text of deltas delivered since then.
C18_ResetAcrossReconnect ==
  /\ last.op = "handshakeResolved" =>
        /\ accumulatedTranscriptionRef = <<>>
        /\ pendingTranslationRef = <<>>
        /\ ~isResponseInProgressRef
        /\ lastTranslationTimeRef = 0
        /\ requests = <<>>
  /\ IsSubsequence(Squash(Handed \o accumulatedTranscriptionRef), Squash(appended))

C18_Witness ==
  /\ last.op = "handshakeResolved"
  /\ created = 2
  /\ sessionRef \in open
  /\ Truthy(last.bufferBefore)
  /\ last.inFlightBefore
  /\ Truthy(last.pendingBefore)

RanWithoutSession ==
  /\ last.op \in {"delta", "response.done", "sendUserText", "sendEvent"}
  /\ last.sessionBefore = 0

\* a handler or send operation that ran without a session left the buffer,
\* the last flush time, the pending text and the in-flight flag as they were
C19_NoMutationWhileIdle ==
  RanWithoutSession =>
    /\ accumulatedTranscriptionRef = last.bufferBefore
    /\ lastTranslationTimeRef = last.lastBefore
    /\ pendingTranslationRef = last.pendingBefore
    /\ isResponseInProgressRef = last.inFlightBefore

\* C19: while there is no session, the delta handler, the response.done
\* handler, sendUserText and sendEvent throw NotConnected and change neither
\* the buffer, the last flush time, the pending text nor the in-flight flag.
C19_StateGuard ==
  /\ RanWithoutSession => last.threw
  /\ C19_NoMutationWhileIdle

\* the last step handed an event to the transport
SentToTransport ==
  \/ last.sent
  \/ last.op \in {"delta", "response.done"} /\ Len(requests) > last.requestsBefore

\* a handshake is in progress: a connect() call awaits it on a session that
\* was not closed
HandshakeInProgress ==
  \E c \in Conns : pc[c] = "awaitHandshake" /\ sess[c] \notin closed

\* C20: while the status is DISCONNECTED no handshake is in progress and no
\* event is sent to the transport.
C20_IdleIsQuiet ==
  /\ status = "DISCONNECTED" => ~HandshakeInProgress
  /\ SentToTransport => last.statusBefore # "DISCONNECTED"

\* ------------------------------------- claims on the dispatcher and operations
\* the last handler called transport.sendEvent and it threw
SendFailed == last.op \in {"delta", "response.done"} /\ last.threw

\* C21: when sending a translation request throws, the in-flight flag is
\* false afterwards, no request was issued, and the text of the failed request
\* is neither in the pending text nor kept for a retry.
C21_SendFailure ==
  SendFailed =>
    /\ ~isResponseInProgressRef
    /\ Len(requests) = last.requestsBefore
    /\ pendingTranslationRef = (IF last.op = "delta" THEN last.pendingBefore ELSE <<>>)
    /\ accumulatedTranscriptionRef = (IF last.op = "delta" THEN <<>> ELSE last.bufferBefore)

\* the scheduler's refs are as the last step found them, and it issued nothing
RefsUntouched ==
  /\ accumulatedTranscriptionRef = last.bufferBefore
  /\ lastTranslationTimeRef = last.lastBefore
  /\ pendingTranslationRef = last.pendingBefore
  /\ isResponseInProgressRef = last.inFlightBefore
  /\ Len(requests) = last.requestsBefore

\* C22: interrupt() leaves the buffer, the last flush time, the pending text
\* and the in-flight flag unchanged in every state; a request marked in flight
\* stays marked.
C22_InterruptFrame ==
  last.op = "interrupt" => RefsUntouched

C22_Witness ==
  /\ last.op = "interrupt"
  /\ last.sent
  /\ isResponseInProgressRef
  /\ Truthy(pendingTranslationRef)
  /\ outstanding # <<>>

\* what the delta and response.done handlers do, from what they found alone:
\* the flush decision, the hand-over of the buffer and the drain
HandledByRule ==
  /\ last.op = "delta" =>
        (last.flushed <=>
           /\ Truthy(last.arg)
           /\ Squash(BufferEvaluated) # <<>>
           /\ (TokenCount(BufferEvaluated) >= 3 \/ Elapsed > 1000))
  /\ StepHandsOver
  /\ C3_CoalescingDrain

\* C23: mute(flag) leaves the buffer, the last flush time, the pending text,
\* the in-flight flag, the status and the session reference unchanged for both
\* flag values, and events are handled by the same rule whether the session
\* is muted or not.
C23_MuteFrame ==
  /\ last.op = "mute" =>
        /\ RefsUntouched
        /\ status = last.statusBefore
        /\ sessionRef = last.sessionBefore
  /\ (last.op \in {"delta", "response.done"} /\ ~last.threw) => HandledByRule

C23_Witness ==
  /\ muted
  /\ Drained
  /\ Truthy(accumulatedTranscriptionRef)

\* the one handler each tag is to reach
ExpectedHandler(tag) ==
  CASE tag = "conversation.item.input_audio_transcription.completed" -> "completed"
    [] tag = "conversation.item.input_audio_transcription.delta" -> "delta"
    [] tag = "response.audio_transcript.done" -> "audio.done"
    [] tag = "response.audio_transcript.delta" -> "audio.delta"
    [] tag = "response.done" -> "response.done"
    [] OTHER -> "default"

\* C24: every event, whatever its tag, runs exactly one case, the one of its
\* tag; an event with an unrecognized tag runs the default case, which does
\* not throw, and events are still handled afterwards.
C24_DispatcherTotal ==
  last.tag # "" =>
    /\ last.ran = << ExpectedHandler(last.tag) >>
    /\ last.op = ExpectedHandler(last.tag)
    /\ last.op = "default" =>
          /\ ~last.threw
          /\ sessionRef \in open
          /\ ENABLED HandleTransportEvent("response.audio_transcript.delta", <<>>, 1, TRUE)

C24_Witness ==
  /\ last.tag = "input_audio_buffer.speech_started"
  /\ last.op = "default"
  /\ isResponseInProgressRef
  /\ Truthy(pendingTranslationRef)

\* C25: response.audio_transcript.done, response.audio_transcript.delta and
\* events with an unrecognized tag leave the buffer, the last flush time, the
\* pending text and the in-flight flag unchanged and issue no request.
C25_ForwardedOnly ==
  last.op \in {"audio.done", "audio.delta", "default"} => RefsUntouched

C25_Witness ==
  /\ last.op \in {"audio.done", "audio.delta"}
  /\ Truthy(accumulatedTranscriptionRef)
  /\ isResponseInProgressRef
  /\ Truthy(pendingTranslationRef)

\* C26 as amended: a transcription-completed event empties the buffer and
\* leaves the last flush time, the pending text and the in-flight flag as
\* they were.
C26_CompletedKeepsFlushTime ==
  last.op = "completed" =>
    /\ accumulatedTranscriptionRef = <<>>
    /\ lastTranslationTimeRef = last.lastBefore
    /\ pendingTranslationRef = last.pendingBefore
    /\ isResponseInProgressRef = last.inFlightBefore
    /\ Len(requests) = last.requestsBefore

C26_Witness ==
  /\ last.op = "completed"
  /\ Truthy(last.bufferBefore)
  /\ last.lastBefore # 0
  /\ last.at > last.lastBefore

\* C26 as stated: after a transcription-completed event the buffer is empty
\* and the last flush time is the time at which the event was handled.
C26_Original ==
  last.op = "completed" =>
    /\ accumulatedTranscriptionRef = <<>>
    /\ lastTranslationTimeRef = last.at

\* ------------------------------------------------------------- memory system: claims
\* C27: a memory search with a limit returns at most that many results: whatever
\* the query and the limit L (5 by default in the search_memory tool, 10 by default
\* in GET /api/memory), the answer holds at most L results.
C27_LimitRespected ==
  (memLast.op = "search" /\ memLast.status = 200) =>
    Cardinality(memLast.results) <= memLast.limit

\* C28: the memory system initializes itself on first access: a GET or POST runs
\* its memory-service operation only once the store and the service have been
\* initialized; a failed initialization ends the request in an error response and
\* leaves the initialized flag as it was, and a request that finds the flag false
\* attempts the initialization again.
C28_AutoInitialize ==
  /\ \A r \in Reqs :
       (reqPc[r] = "op" /\ reqKind[r] \in GuardedKinds) =>
         /\ memoryServiceInitialized
         /\ vectorStore # 0 /\ index # 0 /\ queryEngine # 0
  /\ (memLast.op \in GuardedKinds /\ memLast.kind \in GuardedKinds) =>
       /\ memLast.flagBefore
       /\ memLast.storeBefore # 0 /\ memLast.indexBefore # 0 /\ memLast.engineBefore # 0
       /\ memLast.status = 200
  /\ (memLast.op = "initFailed" /\ memLast.kind \in GuardedKinds) =>
       /\ memLast.status = 500
       /\ reqPc[memLast.req] = "idle"
       /\ memoryServiceInitialized = memLast.flagBefore
  /\ (memLast.op = "start" /\ memLast.kind \in GuardedKinds /\ ~memLast.flagBefore) =>
       reqPc[memLast.req] = "initStore"

\* the first request failed to initialize, the second initialized and stored
C28_Witness ==
  /\ memLast.op = "store"
  /\ memLast.status = 200
  /\ memLast.failed
  /\ started = 2
  /\ stored = 1

\* C29: DELETE /api/memory?action=reset clears all memory: once it has answered
\* { status: 'reset' }, no document stored before it is returned by a later search
\* or conversation-memory query.
C29_ResetClears ==
  (memLast.op \in {"search", "conversation"} /\ memLast.status = 200) =>
    memLast.results \cap beforeReset = {}

\* ------------------------------------------------------------- pending text
\* the half of C30 that reads the refs alone: pending text implies the flag
C30_PendingImpliesFlag ==
  pendingTranslationRef # <<>> => isResponseInProgressRef

\* C30: between event handlers of a connected session, whenever PendingText is
\* non-empty RequestInFlight is true and a request is outstanding whose completion
\* will drain the pending text.
C30_PendingHasDrainer ==
  (sessionRef \in open /\ pendingTranslationRef # <<>>) =>
    /\ isResponseInProgressRef
    /\ outstanding # <<>>

\* ------------------------------------------------------------- buffer and time
\* C31: between event handlers the buffer holds at most 2 whitespace-separated
\* tokens; after a transcription-delta handler that decided to flush, the buffer
\* is empty and lastTranslationTimeRef is that handler's Date.now(), whether the
\* text was sent or queued in pendingTranslationRef.
C31_BufferBounded ==
  /\ TokenCount(accumulatedTranscriptionRef) <= MinWords - 1
  /\ (last.op = "delta" /\ last.flushed) =>
       /\ accumulatedTranscriptionRef = <<>>
       /\ lastTranslationTimeRef = last.at

\* C32: the flush decision is taken only while a transcription delta with a
\* non-empty event.delta is handled: no other step (the clock advancing, any
\* other event, any operation) hands the buffer over, adds to the pending text
\* or sets lastTranslationTimeRef to a time, so a buffer of 1 or 2 tokens stays
\* as it is while only the clock advances, even more than 1000 ms.
C32_FlushOnlyOnDelta ==
  [][ ~(last'.op = "delta" /\ Truthy(last'.arg)) =>
        /\ accumulatedTranscriptionRef' \in {accumulatedTranscriptionRef, <<>>}
        /\ lastTranslationTimeRef' \in {lastTranslationTimeRef, 0}
        /\ pendingTranslationRef' \in {pendingTranslationRef, <<>>}
        /\ Len(requests') > Len(requests) =>
             requests' = Append(requests, pendingTranslationRef)
        /\ last'.op = "other" => UNCHANGED << refs, requests >>
    ]_vars

\* the clock has advanced past the interval over a buffer of 1 or 2 tokens
C32_Witness ==
  /\ last.op = "other"
  /\ ticks > 0
  /\ sessionRef \in open
  /\ TokenCount(accumulatedTranscriptionRef) \in 1..(MinWords - 1)
  /\ now - lastTranslationTimeRef > FlushIntervalMs
  /\ lastTranslationTimeRef > 0

\* the last handler was the first delta since the handshake that carried text
FirstTextAfterConnect ==
  /\ last.op = "delta"
  /\ last.sessionBefore # 0
  /\ Squash(last.arg) # <<>>
  /\ Squash(appended) = Squash(last.arg)

\* C33: connect() resets lastTranslationTimeRef to 0, not to the connect time,
\* so the first transcription delta with non-blank text handled after a
\* successful connect flushes, even with a single token, and, no request being
\* in flight, its text is sent at once.
C33_FirstDeltaFlushes ==
  FirstTextAfterConnect =>
    /\ last.lastBefore = 0
    /\ last.flushed
    /\ ~last.inFlightBefore
    /\ Len(requests) = last.requestsBefore + 1
    /\ requests[Len(requests)] = Trim(BufferEvaluated)
    /\ pendingTranslationRef = <<>>
    /\ accumulatedTranscriptionRef = <<>>
    /\ isResponseInProgressRef

\* a single token, after a blank delta, is sent
C33_Witness ==
  /\ FirstTextAfterConnect
  /\ TokenCount(BufferEvaluated) = 1
  /\ Len(last.bufferBefore) > 0
  /\ requests = << Trim(BufferEvaluated) >>

\* ------------------------------------------------- connect() and disconnect()
\* C34: under every interleaving of connect(), with its two awaits, and
\* disconnect(): whenever the status is CONNECTED there is a session
\* (sessionRef is not null), and after disconnect() the status does not become
\* CONNECTED again unless connect() is called again, so it never goes from
\* DISCONNECTED to CONNECTED.
C34_ConnectedHasSession ==
  /\ status = "CONNECTED" => sessionRef # 0
  /\ (last.op = "handshakeResolved" /\ status = "CONNECTED") =>
       last.statusBefore # "DISCONNECTED"

\* the connect() calls whose handshake is in progress on a session not closed
Handshaking == { c \in Conns : pc[c] = "awaitHandshake" /\ sess[c] \notin closed }

\* C35: at most one session is created per connection: when connect() is
\* invoked again while a first call awaits the key or the handshake, a session
\* is constructed only when there is none, and at most one handshake is in
\* progress.
C35_OneSessionPerConnection ==
  /\ last.op = "keyResolved" => last.sessionBefore = 0
  /\ Cardinality(Handshaking) <= 1

\* ------------------------------------------------------------- push to talk
\* the talk button while connect() and disconnect() interleave
PttNext ==
  \/ \E c \in Conns : ConnectWithin(c, MaxSessions)
  \/ \E c \in Conns : KeyResolved(c)
  \/ \E c \in Conns : HandshakeResolved(c)
  \/ Disconnect
  \/ HandleTalkButtonDown
  \/ HandleTalkButtonUp

PttSpec == Init /\ [][PttNext]_vars

\* C36: a release of the talk button sends input_audio_buffer.commit and
\* response.create only when the status is CONNECTED and a press was accepted
\* earlier in the same connected session with no release or disconnect in
\* between, so the session that gets the commit got that press's
\* input_audio_buffer.clear; a release without an accepted press sends nothing.
C36_PushToTalk ==
  /\ (last.op = "talkUp" /\ last.sent) =>
       /\ last.statusBefore = "CONNECTED"
       /\ last.pressed
       /\ last.clearedBefore = last.sessionBefore
  /\ (last.op = "talkUp" /\ ~last.pressed) => ~last.sent

\* ------------------------------------------------------------- applyFilters: claim
\* a document satisfies the filters that were specified
Satisfies(d, f) ==
  /\ f.conversationId # "" => d.conversationId = f.conversationId
  /\ f.userId # "" => d.userId = f.userId
  /\ f.agentName # "" => d.agentName = f.agentName
  /\ f.typeGiven => d.type \in f.type
  /\ f.rangeGiven => (f.start <= d.timestamp /\ d.timestamp <= f.end)
  /\ f.importanceGiven =>
       /\ d.importance # 0
       /\ f.min # 0 => d.importance >= f.min
       /\ f.max # 0 => d.importance <= f.max
  /\ f.tagsGiven => (d.hasTags /\ f.tags \cap d.tags # {})

\* C37: applyFilters returns a sub-sequence of its input, in the same order, in
\* which every result satisfies every filter that was specified
\* (conversationId, userId, agentName, type, timeRange, importance, tags), and
\* every input result that satisfies them all is returned; with no filters the
\* input is returned unchanged.
C37_FiltersExact ==
  memLast.op = "applyFilters" =>
    /\ ~memLast.filters.given => memLast.output = memLast.input
    /\ memLast.filters.given =>
         memLast.output =
           SelectSeq(memLast.input, LAMBDA d : Satisfies(d, memLast.filters))

\* ------------------------------------------------------------- the service alone: claim
\* C38: storeMemory and queryMemory called before initialize() has completed
\* fail with 'Memory service not initialized' and store or return nothing;
\* getMemoryStore() fails before initializeMemoryStore() has succeeded, so
\* initialize() cannot succeed before the store is initialized.
C38_NotInitialized ==
  /\ (memLast.op = "store" /\ memLast.indexBefore = 0) =>
       /\ memLast.status = 500
       /\ stored = 0
       /\ \A i \in StoreIds : storeDocs[i] = {}
  /\ (memLast.op = "search" /\ memLast.engineBefore = 0) =>
       /\ memLast.status = 500
       /\ memLast.results = {}
  /\ (memLast.op = "initialize" /\ memLast.storeBefore = 0) =>
       /\ memLast.status = 500
       /\ index = 0 /\ queryEngine = 0
  /\ (index # 0 \/ queryEngine # 0) => vectorStore # 0

\* storeMemory is refused while the route's initialize() is still awaited on a
\* store that exists
C38_Witness ==
  /\ memLast.op = "store"
  /\ memLast.kind = "tool"
  /\ memLast.status = 500
  /\ vectorStore # 0
  /\ index = 0
  /\ \E r \in Reqs : reqPc[r] = "initService"

====
